---- MODULE Spec2Model ----
(***************************************************************************)
(* DataPack (matchzoo/data_pack/data_pack.py): a relation table linking    *)
(* a left and a right entity table, and DataPackFrameView, the joined view *)
(* of the three.  The pandas objects the class is built on are modelled by *)
(* what the calls made in the source do to them: label based .loc, the     *)
(* index reset, the column assignment, the index join.                     *)
(***************************************************************************)
EXTENDS Integers, Sequences, FiniteSets, TLC

(* ------------------------------------------------------------------ *)
(* Bounds of the model                                                *)
(* ------------------------------------------------------------------ *)
MaxRows == 2      \* rows of the relation table a DataPack is constructed with
MaxIdxLen == 2    \* longest position list passed to [] (duplicates allowed)
MaxSteps == 2     \* calls made in one run
MaxFrames == 10   \* DataFrame objects alive at once (three packs and a temporary)

(* ------------------------------------------------------------------ *)
(* Values held in a table cell, and the tables themselves             *)
(* ------------------------------------------------------------------ *)
StrCell(s) == [k |-> "str", s |-> s, n |-> 0]
IntCell(n) == [k |-> "int", s |-> "", n |-> n]
NaN == [k |-> "nan", s |-> "", n |-> 0]

\* A DataFrame: the index name, the index labels, the column names and the
\* rows (one cell per column).  err is the exception raised instead, if any.
DataFrame(name, index, columns, rows) ==
    [err |-> "", name |-> name, index |-> index, columns |-> columns, rows |-> rows]

Raise(e) == [err |-> e, name |-> "", index |-> <<>>, columns |-> <<>>, rows |-> <<>>]

\* A Series: one column of a frame with the frame's index.
Series(name, index, values) ==
    [err |-> "", name |-> name, index |-> index, values |-> values]

RaiseS(e) == [err |-> e, name |-> "", index |-> <<>>, values |-> <<>>]

RangeIndex(n) == [i \in 1..n |-> IntCell(i - 1)]

IndexOf(seq, x) ==
    IF \E i \in 1..Len(seq) : seq[i] = x
    THEN CHOOSE i \in 1..Len(seq) : seq[i] = x /\ \A j \in 1..(i - 1) : seq[j] # x
    ELSE 0

\* Mutant: the values as they come, repeated ones kept.
UniqueSeq_keepsRepeats(vals) == vals

\* Series.unique(): the distinct values in order of first appearance.
RECURSIVE UniqueSeq(_)
UniqueSeq(vals) ==
    IF vals = <<>> THEN <<>>
    ELSE LET front == UniqueSeq(SubSeq(vals, 1, Len(vals) - 1))
             last == vals[Len(vals)]
         IN IF IndexOf(front, last) # 0 THEN front ELSE Append(front, last)

\* The positions (1-based) of the rows carrying `label` in an index.
LabelPositions(index, label) ==
    SelectSeq([i \in 1..Len(index) |-> i], LAMBDA i : index[i] = label)

\* Label based lookup of a list of labels: the positions of the matching rows
\* in the order of the labels, a label matching nothing being a KeyError.
RECURSIVE LocPositions(_, _)
LocPositions(index, labels) ==
    IF labels = <<>> THEN <<>>
    ELSE LocPositions(index, SubSeq(labels, 1, Len(labels) - 1))
           \o LabelPositions(index, labels[Len(labels)])

LocMissing(index, labels) ==
    \E i \in 1..Len(labels) : LabelPositions(index, labels[i]) = <<>>

\* df.loc[labels] with a list (or Series) of labels.
Loc(df, labels) ==
    IF df.err # "" THEN df
    ELSE IF LocMissing(df.index, labels) THEN Raise("KeyError")
    ELSE LET pos == LocPositions(df.index, labels)
         IN DataFrame(df.name,
                      [i \in 1..Len(pos) |-> df.index[pos[i]]],
                      df.columns,
                      [i \in 1..Len(pos) |-> df.rows[pos[i]]])

\* df[column]
GetColumn(df, column) ==
    IF df.err # "" THEN RaiseS(df.err)
    ELSE IF IndexOf(df.columns, column) = 0 THEN RaiseS("KeyError")
    ELSE LET c == IndexOf(df.columns, column)
         IN Series(column, df.index, [i \in 1..Len(df.rows) |-> df.rows[i][c]])

\* series[list of integers] on an integer index: label based.
SeriesGetItem(ser, labels) ==
    IF ser.err # "" THEN ser
    ELSE IF LocMissing(ser.index, labels) THEN RaiseS("KeyError")
    ELSE LET pos == LocPositions(ser.index, labels)
         IN Series(ser.name,
                   [i \in 1..Len(pos) |-> ser.index[pos[i]]],
                   [i \in 1..Len(pos) |-> ser.values[pos[i]]])

\* series.to_frame()
ToFrame(ser) ==
    IF ser.err # "" THEN Raise(ser.err)
    ELSE DataFrame("", ser.index, <<ser.name>>,
                   [i \in 1..Len(ser.values) |-> <<ser.values[i]>>])

\* df.reset_index(drop=True): a fresh 0..n-1 index, the old one discarded.
ResetIndexDrop(df) ==
    IF df.err # "" THEN df
    ELSE DataFrame("", RangeIndex(Len(df.rows)), df.columns, df.rows)

\* df.reset_index(): the old index becomes the first column, under its name;
\* a column of that name already there is a ValueError.
ResetIndex(df) ==
    IF df.err # "" THEN df
    ELSE IF IndexOf(df.columns, df.name) # 0 THEN Raise("ValueError")
    ELSE DataFrame("", RangeIndex(Len(df.rows)), <<df.name>> \o df.columns,
                   [i \in 1..Len(df.rows) |-> <<df.index[i]>> \o df.rows[i]])

\* left.join(right): a left join on the index; columns of the same name on
\* both sides are a ValueError (no suffix is given).
Join(l, r) ==
    IF l.err # "" THEN l
    ELSE IF r.err # "" THEN r
    ELSE IF \E i \in 1..Len(l.columns) : IndexOf(r.columns, l.columns[i]) # 0
         THEN Raise("ValueError")
    ELSE DataFrame(l.name, l.index, l.columns \o r.columns,
                   [i \in 1..Len(l.rows) |->
                       LET p == LabelPositions(r.index, l.index[i])
                       IN l.rows[i] \o (IF p = <<>>
                                        THEN [j \in 1..Len(r.columns) |-> NaN]
                                        ELSE r.rows[p[1]])])

\* Mutant: a missing column is passed over (errors='ignore').
DropColumn_ignoresMissing(df, column) ==
    IF df.err # "" THEN df
    ELSE LET keep == SelectSeq([j \in 1..Len(df.columns) |-> j],
                               LAMBDA j : df.columns[j] # column)
         IN DataFrame(df.name, df.index,
                      [j \in 1..Len(keep) |-> df.columns[keep[j]]],
                      [i \in 1..Len(df.rows) |->
                          [j \in 1..Len(keep) |-> df.rows[i][keep[j]]]])

\* df.drop(columns=column): a missing column is a KeyError.
DropColumn(df, column) ==
    IF df.err # "" THEN df
    ELSE IF IndexOf(df.columns, column) = 0 THEN Raise("KeyError")
    ELSE LET c == IndexOf(df.columns, column)
             keep == SelectSeq([j \in 1..Len(df.columns) |-> j], LAMBDA j : j # c)
         IN DataFrame(df.name, df.index,
                      [j \in 1..Len(keep) |-> df.columns[keep[j]]],
                      [i \in 1..Len(df.rows) |->
                          [j \in 1..Len(keep) |-> df.rows[i][keep[j]]]])

\* df[name] = series (a series over df's own index): an existing column is
\* overwritten where it stands, a new one is appended as the last column.
SetColumn(df, name, ser) ==
    LET c == IndexOf(df.columns, name)
    IN IF c # 0
       THEN DataFrame(df.name, df.index, df.columns,
                      [i \in 1..Len(df.rows) |-> [df.rows[i] EXCEPT ![c] = ser.values[i]]])
       ELSE DataFrame(df.name, df.index, Append(df.columns, name),
                      [i \in 1..Len(df.rows) |-> Append(df.rows[i], ser.values[i])])

\* df.sample(frac=1): all the rows, each with its index label, in the order
\* the random generator draws (perm, a permutation of the positions).
Sample(df, perm) ==
    DataFrame(df.name,
              [i \in 1..Len(perm) |-> df.index[perm[i]]],
              df.columns,
              [i \in 1..Len(perm) |-> df.rows[perm[i]]])

Permutations_(n) ==
    {p \in [1..n -> 1..n] : \A i, j \in 1..n : p[i] = p[j] => i = j}

(* ------------------------------------------------------------------ *)
(* The [] argument and _convert_to_list_index                         *)
(* ------------------------------------------------------------------ *)
None == [none |-> TRUE, v |-> 0]
Some(v) == [none |-> FALSE, v |-> v]

IntIndex(i) == [kind |-> "int", i |-> i, start |-> None, stop |-> None, step |-> None, list |-> <<>>]
SliceIndex(start, stop, step) ==
    [kind |-> "slice", i |-> 0, start |-> start, stop |-> stop, step |-> step, list |-> <<>>]
ListIndex(l) == [kind |-> "list", i |-> 0, start |-> None, stop |-> None, step |-> None, list |-> l]

\* slice.indices(length): the (start, stop, step) of the range the slice
\* denotes on a sequence of that length.
SliceBound(x, lower, upper, length, dflt) ==
    IF x.none THEN dflt
    ELSE IF x.v < 0
         THEN (IF x.v + length < lower THEN lower ELSE x.v + length)
         ELSE (IF x.v > upper THEN upper ELSE x.v)

SliceIndices(sl, length) ==
    LET step == IF sl.step.none THEN 1 ELSE sl.step.v
        lower == IF step < 0 THEN 0 - 1 ELSE 0
        upper == IF step < 0 THEN length - 1 ELSE length
    IN [start |-> SliceBound(sl.start, lower, upper, length, IF step < 0 THEN upper ELSE lower),
        stop |-> SliceBound(sl.stop, lower, upper, length, IF step < 0 THEN lower ELSE upper),
        step |-> step]

\* list(range(start, stop, step))
RangeList(r) ==
    LET n == IF r.step > 0
             THEN (IF r.stop <= r.start THEN 0 ELSE ((r.stop - r.start - 1) \div r.step) + 1)
             ELSE (IF r.stop >= r.start THEN 0 ELSE ((r.start - r.stop - 1) \div (0 - r.step)) + 1)
    IN [i \in 1..n |-> r.start + (i - 1) * r.step]

_convert_to_list_index(index, length) ==
    IF index.kind = "int" THEN <<index.i>>
    ELSE IF index.kind = "slice" THEN RangeList(SliceIndices(index, length))
    ELSE index.list

IntCells(positions) == [i \in 1..Len(positions) |-> IntCell(positions[i])]

(* ------------------------------------------------------------------ *)
(* Memory: the DataFrame objects, and DataPack objects referring to   *)
(* three of them                                                      *)
(* ------------------------------------------------------------------ *)
NoFrame == Raise("free")
NoPack == [relation |-> 0, left |-> 0, right |-> 0]

NewFrame(frames) ==
    CHOOSE f \in 1..MaxFrames :
        frames[f] = NoFrame /\ \A g \in 1..(f - 1) : frames[g] # NoFrame

\* What a method call leaves behind: the frames, the receiver's fields, the
\* exception raised ("" when none) and the DataPack returned (NoPack: None).
Outcome(frames, self, raised, ret) ==
    [frames |-> frames, self |-> self, raised |-> raised, ret |-> ret]

\* DataPack(relation=..., left=..., right=...)
DataPack__init__(relation, left, right) ==
    [relation |-> relation, left |-> left, right |-> right]

has_label(frames, self) == IndexOf(frames[self.relation].columns, "label") # 0

__len__(frames, self) == Len(frames[self.relation].rows)

\* Mutant: the left and right arguments of the constructor exchanged.
NewPackOfCopies_swapsSides(frames, relation, left, right) ==
    LET fl == NewFrame(frames)
        frames1 == [frames EXCEPT ![fl] = right]
        fr == NewFrame(frames1)
        frames2 == [frames1 EXCEPT ![fr] = left]
        frel == NewFrame(frames2)
        frames3 == [frames2 EXCEPT ![frel] = relation]
    IN [frames |-> frames3, pack |-> DataPack__init__(frel, fl, fr)]

\* DataPack(left=l.copy(), right=r.copy(), relation=rel.copy()): each copy is
\* a new DataFrame object holding the same content.
NewPackOfCopies(frames, relation, left, right) ==
    LET fl == NewFrame(frames)
        frames1 == [frames EXCEPT ![fl] = left]
        fr == NewFrame(frames1)
        frames2 == [frames1 EXCEPT ![fr] = right]
        frel == NewFrame(frames2)
        frames3 == [frames2 EXCEPT ![frel] = relation]
    IN [frames |-> frames3, pack |-> DataPack__init__(frel, fl, fr)]

\* Mutant: a DataPack over the receiver's own DataFrame objects (no .copy()).
copy_sharesFrames(frames, self) ==
    Outcome(frames, self, "", DataPack__init__(self.relation, self.left, self.right))

copy(frames, self) ==
    LET new == NewPackOfCopies(frames, frames[self.relation],
                               frames[self.left], frames[self.right])
    IN Outcome(new.frames, self, "", new.pack)

\* Mutant: the selected relation rows keep the labels they had in the source
\* (no reset_index).
__getitem___keepsLabels(frames, self, index) ==
    LET idx == _convert_to_list_index(index, __len__(frames, self))
        relation == Loc(frames[self.relation], IntCells(idx))
        left == Loc(frames[self.left], UniqueSeq(GetColumn(relation, "id_left").values))
        right == Loc(frames[self.right], UniqueSeq(GetColumn(relation, "id_right").values))
    IN IF relation.err # "" THEN Outcome(frames, self, relation.err, NoPack)
       ELSE IF left.err # "" THEN Outcome(frames, self, left.err, NoPack)
       ELSE IF right.err # "" THEN Outcome(frames, self, right.err, NoPack)
       ELSE LET new == NewPackOfCopies(frames, relation, left, right)
            IN Outcome(new.frames, self, "", new.pack)

__getitem__(frames, self, index) ==
    LET idx == _convert_to_list_index(index, __len__(frames, self))
        relation == ResetIndexDrop(Loc(frames[self.relation], IntCells(idx)))
        left == Loc(frames[self.left], UniqueSeq(GetColumn(relation, "id_left").values))
        right == Loc(frames[self.right], UniqueSeq(GetColumn(relation, "id_right").values))
    IN IF relation.err # "" THEN Outcome(frames, self, relation.err, NoPack)
       ELSE IF left.err # "" THEN Outcome(frames, self, left.err, NoPack)
       ELSE IF right.err # "" THEN Outcome(frames, self, right.err, NoPack)
       ELSE LET new == NewPackOfCopies(frames, relation, left, right)
            IN Outcome(new.frames, self, "", new.pack)

\* The wrapper _optional_inplace puts around a method, in its two halves.
\* Before the method: the target is the receiver, or a copy of it.
_optional_inplace_target(frames, self, inplace) ==
    IF inplace THEN [frames |-> frames, target |-> self]
    ELSE LET c == copy(frames, self) IN [frames |-> c.frames, target |-> c.ret]

\* After the method has run on the target with outcome o: its exception goes
\* on to the caller; otherwise the target is returned unless inplace.
_optional_inplace_return(o, self, inplace) ==
    IF o.raised # ""
    THEN Outcome(o.frames, IF inplace THEN o.self ELSE self, o.raised, NoPack)
    ELSE IF inplace THEN Outcome(o.frames, o.self, "", NoPack)
    ELSE Outcome(o.frames, self, "", o.self)

\* Mutant: the shuffled rows keep their old labels (no reset_index).
shuffle_body_keepsLabels(frames, self, perm) ==
    LET sampled == Sample(frames[self.relation], perm)
        f == NewFrame(frames)
    IN Outcome([frames EXCEPT ![f] = sampled], [self EXCEPT !.relation = f], "", NoPack)

shuffle_body(frames, self, perm) ==
    LET sampled == Sample(frames[self.relation], perm)
        f == NewFrame(frames)
    IN Outcome([frames EXCEPT ![f] = ResetIndexDrop(sampled)],
               [self EXCEPT !.relation = f], "", NoPack)

shuffle(frames, self, perm, inplace) ==
    LET t == _optional_inplace_target(frames, self, inplace)
    IN _optional_inplace_return(shuffle_body(t.frames, t.target, perm), self, inplace)

drop_label_body(frames, self) ==
    LET dropped == DropColumn(frames[self.relation], "label")
        f == NewFrame(frames)
    IN IF dropped.err # "" THEN Outcome(frames, self, dropped.err, NoPack)
       ELSE Outcome([frames EXCEPT ![f] = dropped], [self EXCEPT !.relation = f], "", NoPack)

\* Mutant: the inplace flag ignored, the receiver always modified.
drop_label_alwaysInplace(frames, self, inplace) ==
    LET t == _optional_inplace_target(frames, self, TRUE)
    IN _optional_inplace_return(drop_label_body(t.frames, t.target), self, TRUE)

drop_label(frames, self, inplace) ==
    LET t == _optional_inplace_target(frames, self, inplace)
    IN _optional_inplace_return(drop_label_body(t.frames, t.target), self, inplace)

(* ------------------------------------------------------------------ *)
(* apply_on_text and the callbacks passed to it                       *)
(* ------------------------------------------------------------------ *)
Upper(s) ==
    CASE s = "query 1" -> "QUERY 1"
      [] s = "query 2" -> "QUERY 2"
      [] s = "document 1" -> "DOCUMENT 1"
      [] s = "document 2" -> "DOCUMENT 2"
      [] OTHER -> s

\* func(value): len and str.upper, each a TypeError on a value that is no text.
CallFunc(func, cell) ==
    IF cell.k # "str" THEN [err |-> "TypeError", v |-> NaN]
    ELSE IF func = "len" THEN [err |-> "", v |-> IntCell(Len(cell.s))]
    ELSE [err |-> "", v |-> StrCell(Upper(cell.s))]

\* series.apply(func): a new series, or the exception func raised.
Apply(ser, func) ==
    IF ser.err # "" THEN ser
    ELSE IF \E i \in 1..Len(ser.values) : CallFunc(func, ser.values[i]).err # ""
    THEN RaiseS(CallFunc(func, ser.values[
             CHOOSE i \in 1..Len(ser.values) :
                 /\ CallFunc(func, ser.values[i]).err # ""
                 /\ \A j \in 1..(i - 1) : CallFunc(func, ser.values[j]).err = ""]).err)
    ELSE Series(ser.name, ser.index,
                [i \in 1..Len(ser.values) |-> CallFunc(func, ser.values[i]).v])

\* series.progress_apply(func): apply, reporting progress on the side.
ProgressApply(ser, func) == Apply(ser, func)

NoRename == [kind |-> "none", s |-> "", l |-> "", r |-> ""]
RenameTo(s) == [kind |-> "str", s |-> s, l |-> "", r |-> ""]
RenamePair(l, r) == [kind |-> "pair", s |-> "", l |-> l, r |-> r]

_apply_on_text_right(frames, self, func, rename, verbose) ==
    LET name == IF rename = "" THEN "text_right" ELSE rename
        text == GetColumn(frames[self.right], "text_right")
        applied == IF verbose THEN ProgressApply(text, func) ELSE Apply(text, func)
    IN IF applied.err # "" THEN Outcome(frames, self, applied.err, NoPack)
       ELSE Outcome([frames EXCEPT ![self.right] = SetColumn(@, name, applied)],
                    self, "", NoPack)

_apply_on_text_left(frames, self, func, rename, verbose) ==
    LET name == IF rename = "" THEN "text_left" ELSE rename
        text == GetColumn(frames[self.left], "text_left")
        applied == IF verbose THEN ProgressApply(text, func) ELSE Apply(text, func)
    IN IF applied.err # "" THEN Outcome(frames, self, applied.err, NoPack)
       ELSE Outcome([frames EXCEPT ![self.left] = SetColumn(@, name, applied)],
                    self, "", NoPack)

\* rename is None or a pair; a string that is not two characters long does
\* not unpack into two names (ValueError).
_apply_on_text_both(frames, self, func, rename, verbose) ==
    IF rename.kind = "str" THEN Outcome(frames, self, "ValueError", NoPack)
    ELSE LET left_name == IF rename.kind = "none" THEN "text_left" ELSE rename.l
             right_name == IF rename.kind = "none" THEN "text_right" ELSE rename.r
             l == _apply_on_text_left(frames, self, func, left_name, verbose)
         IN IF l.raised # "" THEN l
            ELSE _apply_on_text_right(l.frames, l.self, func, right_name, verbose)

\* Mutant: the left text is transformed unless mode is 'right', the right
\* text unless mode is 'left', and the mode is validated last.
apply_on_text_body_checksModeLast(frames, self, func, mode, rename, verbose) ==
    IF mode = "both" THEN _apply_on_text_both(frames, self, func, rename, verbose)
    ELSE IF mode = "left" THEN _apply_on_text_left(frames, self, func, rename.s, verbose)
    ELSE IF mode = "right" THEN _apply_on_text_right(frames, self, func, rename.s, verbose)
    ELSE LET o == _apply_on_text_both(frames, self, func, rename, verbose)
         IN Outcome(o.frames, o.self, "ValueError", NoPack)

apply_on_text_body(frames, self, func, mode, rename, verbose) ==
    IF mode = "both" THEN _apply_on_text_both(frames, self, func, rename, verbose)
    ELSE IF mode = "left" THEN _apply_on_text_left(frames, self, func, rename.s, verbose)
    ELSE IF mode = "right" THEN _apply_on_text_right(frames, self, func, rename.s, verbose)
    ELSE Outcome(frames, self, "ValueError", NoPack)

apply_on_text(frames, self, func, mode, rename, verbose, inplace) ==
    LET t == _optional_inplace_target(frames, self, inplace)
    IN _optional_inplace_return(
           apply_on_text_body(t.frames, t.target, func, mode, rename, verbose),
           self, inplace)

append_text_length_body(frames, self) ==
    apply_on_text(frames, self, "len", "both",
                  RenamePair("length_left", "length_right"), TRUE, TRUE)

append_text_length(frames, self, inplace) ==
    LET t == _optional_inplace_target(frames, self, inplace)
    IN _optional_inplace_return(append_text_length_body(t.frames, t.target), self, inplace)

(* ------------------------------------------------------------------ *)
(* DataPackFrameView                                                  *)
(* ------------------------------------------------------------------ *)
\* df.loc[series]: the series' values are the labels looked up.
LocBySeries(df, ser) ==
    IF ser.err # "" THEN Raise(ser.err) ELSE Loc(df, ser.values)

\* The loop over dp.relation.columns: every column but the two identifiers
\* is joined to the table, in column order.
RECURSIVE JoinRelationColumns(_, _, _, _)
JoinRelationColumns(joined_table, relation, idx, c) ==
    IF c > Len(relation.columns) THEN joined_table
    ELSE LET column == relation.columns[c]
             labels == ResetIndexDrop(ToFrame(
                           SeriesGetItem(GetColumn(relation, column), IntCells(idx))))
         IN IF column \in {"id_left", "id_right"}
            THEN JoinRelationColumns(joined_table, relation, idx, c + 1)
            ELSE JoinRelationColumns(Join(joined_table, labels), relation, idx, c + 1)

DataPackFrameView__getitem__(frames, dp, index) ==
    LET idx == _convert_to_list_index(index, __len__(frames, dp))
        relation == frames[dp.relation]
        left_df == ResetIndex(LocBySeries(frames[dp.left],
                       SeriesGetItem(GetColumn(relation, "id_left"), IntCells(idx))))
        right_df == ResetIndex(LocBySeries(frames[dp.right],
                        SeriesGetItem(GetColumn(relation, "id_right"), IntCells(idx))))
        joined_table == Join(left_df, right_df)
    IN JoinRelationColumns(joined_table, relation, idx, 1)

\* frame(): self[:]
DataPackFrameView__call__(frames, dp) ==
    DataPackFrameView__getitem__(frames, dp, SliceIndex(None, None, None))

\* The view keeps a reference to the DataPack, not its content.
DataPackFrameView__init__(data_pack) == [_data_pack |-> data_pack]

\* DataPack.frame
frame(self) == DataPackFrameView__init__(self)

(* ------------------------------------------------------------------ *)
(* State                                                              *)
(* ------------------------------------------------------------------ *)
VARIABLES
    frames,    \* the DataFrame objects: object number -> content (NoFrame: none)
    a,         \* the DataPack the client constructed: its three DataFrame objects
    b,         \* the DataPack last returned to the client (NoPack: none yet)
    view,      \* the DataPackFrameView obtained from a at the start
    call,      \* the last call made: method, receiver, arguments, exception
    frameOut,  \* the table the last call of the view returned
    steps      \* calls made so far

vars == <<frames, a, b, view, call, frameOut, steps>>

Slots == {"a", "b"}
Pack(slot) == IF slot = "a" THEN a ELSE b

\* args: the arguments of the call, those it does not take left as in NoArgs.
Call(op, recv, inplace, args, raised, returned) ==
    [op |-> op, recv |-> recv, inplace |-> inplace, args |-> args,
     raised |-> raised, returned |-> returned]

NoIndex == ListIndex(<<>>)
NoArgs == [index |-> NoIndex, perm |-> <<>>, func |-> "", mode |-> "", rename |-> NoRename]

(* The inputs the client draws from *)
RowPool ==
    << <<StrCell("qid1"), StrCell("did1"), IntCell(1)>>,
       <<StrCell("qid2"), StrCell("did2"), IntCell(1)>>,
       <<StrCell("qid1"), StrCell("did2"), IntCell(0)>> >>

\* MaxRows consecutive rows of the pool, from any of its rows on.
InitRelations ==
    {[i \in 1..MaxRows |-> RowPool[((o + i - 1) % Len(RowPool)) + 1]] : o \in 0..(Len(RowPool) - 1)}

InitLeft ==
    DataFrame("id_left", <<StrCell("qid1"), StrCell("qid2")>>, <<"text_left">>,
              << <<StrCell("query 1")>>, <<StrCell("query 2")>> >>)

InitRight ==
    DataFrame("id_right", <<StrCell("did1"), StrCell("did2")>>, <<"text_right">>,
              << <<StrCell("document 1")>>, <<StrCell("document 2")>> >>)

RECURSIVE SeqsUpTo(_, _)
SeqsUpTo(S, n) ==
    IF n = 0 THEN {<<>>}
    ELSE LET shorter == SeqsUpTo(S, n - 1)
         IN shorter \cup {Append(q, x) : q \in shorter, x \in S}

Starts == {None, Some(1)}
Stops == {None, Some(0 - 1)}
Strides == {None, Some(0 - 1), Some(2)}

Indices ==
    {IntIndex(i) : i \in (0 - 1)..MaxRows}
      \cup {SliceIndex(st, sp, sk) : st \in Starts, sp \in Stops, sk \in Strides}
      \cup {ListIndex(l) : l \in SeqsUpTo(0..MaxRows, MaxIdxLen)}

Funcs == {"len", "upper"}
Modes == {"left", "right", "both", "all"}

Renames(mode) ==
    IF mode = "left" THEN {NoRename, RenameTo("length_left"), RenameTo("n")}
    ELSE IF mode = "right" THEN {NoRename, RenameTo("length_right"), RenameTo("n")}
    ELSE IF mode = "both"
    THEN {NoRename, RenamePair("length_left", "length_right"), RenamePair("n", "n"),
          RenameTo("n")}
    ELSE {NoRename}

(* ------------------------------------------------------------------ *)
(* Object numbering: the objects a and b refer to are numbered in the  *)
(* order a.relation, a.left, a.right, b.relation, b.left, b.right;     *)
(* objects nothing refers to any more are dropped.                     *)
(* ------------------------------------------------------------------ *)
RECURSIVE Distinct(_)
Distinct(seq) ==
    IF seq = <<>> THEN <<>>
    ELSE LET front == Distinct(SubSeq(seq, 1, Len(seq) - 1))
         IN IF \E i \in 1..Len(front) : front[i] = seq[Len(seq)]
            THEN front ELSE Append(front, seq[Len(seq)])

Refs(pa, pb) ==
    Distinct(SelectSeq(<<pa.relation, pa.left, pa.right, pb.relation, pb.left, pb.right>>,
                        LAMBDA f : f # 0))

Renumber(refs, p) ==
    [relation |-> IndexOf(refs, p.relation), left |-> IndexOf(refs, p.left),
     right |-> IndexOf(refs, p.right)]

Collect(fr, pa, pb) ==
    LET refs == Refs(pa, pb)
    IN [frames |-> [f \in 1..MaxFrames |-> IF f <= Len(refs) THEN fr[refs[f]] ELSE NoFrame],
        a |-> Renumber(refs, pa),
        b |-> Renumber(refs, pb)]

\* The client's assignment after a call on `recv` with outcome o: a returned
\* DataPack is bound to b (b = recv.method(...)); a mutated receiver stays
\* where it is.
Commit(o, recv, c) ==
    LET na == IF recv = "a" THEN o.self ELSE a
        nb == IF o.ret # NoPack THEN o.ret ELSE IF recv = "b" THEN o.self ELSE b
        m == Collect(o.frames, na, nb)
    IN /\ frames' = m.frames
       /\ a' = m.a
       /\ b' = m.b
       /\ call' = c
       /\ frameOut' = NoFrame
       /\ steps' = steps + 1
       /\ UNCHANGED view

Init ==
    /\ \E rel \in InitRelations :
          frames = [f \in 1..MaxFrames |->
                       IF f = 1 THEN DataFrame("", RangeIndex(Len(rel)),
                                               <<"id_left", "id_right", "label">>, rel)
                       ELSE IF f = 2 THEN InitLeft
                       ELSE IF f = 3 THEN InitRight
                       ELSE NoFrame]
    /\ a = DataPack__init__(1, 2, 3)
    /\ b = NoPack
    /\ view = frame("a")
    /\ call = Call("__init__", "a", FALSE, NoArgs, "", FALSE)
    /\ frameOut = NoFrame
    /\ steps = 0

Receivers == {r \in Slots : Pack(r) # NoPack}

Select ==
    /\ steps < MaxSteps
    /\ \E recv \in Receivers, index \in Indices :
          LET o == __getitem__(frames, Pack(recv), index)
          IN Commit(o, recv, Call("select", recv, FALSE, [NoArgs EXCEPT !.index = index],
                                  o.raised, o.ret # NoPack))

Copy ==
    /\ steps < MaxSteps
    /\ \E recv \in Receivers :
          LET o == copy(frames, Pack(recv))
          IN Commit(o, recv, Call("copy", recv, FALSE, NoArgs, o.raised, o.ret # NoPack))

Shuffle ==
    /\ steps < MaxSteps
    /\ \E recv \in Receivers, inplace \in BOOLEAN :
       \E perm \in Permutations_(__len__(frames, Pack(recv))) :
          LET o == shuffle(frames, Pack(recv), perm, inplace)
          IN Commit(o, recv,
                    Call("shuffle", recv, inplace, [NoArgs EXCEPT !.perm = perm],
                         o.raised, o.ret # NoPack))

DropLabel ==
    /\ steps < MaxSteps
    /\ \E recv \in Receivers, inplace \in BOOLEAN :
          LET o == drop_label(frames, Pack(recv), inplace)
          IN Commit(o, recv,
                    Call("drop_label", recv, inplace, NoArgs, o.raised, o.ret # NoPack))

AppendTextLength ==
    /\ steps < MaxSteps
    /\ \E recv \in Receivers, inplace \in BOOLEAN :
          LET o == append_text_length(frames, Pack(recv), inplace)
          IN Commit(o, recv,
                    Call("append_text_length", recv, inplace, NoArgs, o.raised,
                         o.ret # NoPack))

ApplyOnText ==
    /\ steps < MaxSteps
    /\ \E recv \in Receivers, inplace \in BOOLEAN, func \in Funcs, mode \in Modes,
          verbose \in BOOLEAN :
       \E rename \in Renames(mode) :
          LET o == apply_on_text(frames, Pack(recv), func, mode, rename, verbose, inplace)
          IN Commit(o, recv,
                    Call("apply_on_text", recv, inplace,
                         [NoArgs EXCEPT !.func = func, !.mode = mode, !.rename = rename],
                         o.raised, o.ret # NoPack))

\* view[index]
ViewGetItem ==
    /\ steps < MaxSteps
    /\ \E index \in Indices :
          LET out == DataPackFrameView__getitem__(frames, Pack(view._data_pack), index)
          IN /\ frameOut' = out
             /\ call' = Call("frame[]", view._data_pack, FALSE,
                              [NoArgs EXCEPT !.index = index], out.err, FALSE)
    /\ steps' = steps + 1
    /\ UNCHANGED <<frames, a, b, view>>

\* view()
ViewCall ==
    /\ steps < MaxSteps
    /\ LET out == DataPackFrameView__call__(frames, Pack(view._data_pack))
       IN /\ frameOut' = out
          /\ call' = Call("frame()", view._data_pack, FALSE, NoArgs, out.err, FALSE)
    /\ steps' = steps + 1
    /\ UNCHANGED <<frames, a, b, view>>

Next ==
    \/ Select
    \/ Copy
    \/ Shuffle
    \/ DropLabel
    \/ AppendTextLength
    \/ ApplyOnText
    \/ ViewGetItem
    \/ ViewCall

Spec == Init /\ [][Next]_vars

(* ------------------------------------------------------------------ *)
(* Vocabulary of the properties                                       *)
(* ------------------------------------------------------------------ *)
\* The three tables a DataPack refers to.
Content(fr, p) ==
    IF p = NoPack THEN [relation |-> NoFrame, left |-> NoFrame, right |-> NoFrame]
    ELSE [relation |-> fr[p.relation], left |-> fr[p.left], right |-> fr[p.right]]

\* A step that is a call of method op.
Called(op) == steps' = steps + 1 /\ call'.op = op

\* Around a call: the receiver before it, the receiver after it, the other
\* DataPack before it, and the DataPack the call returned.
RecvBefore == Content(frames, Pack(call'.recv))
RecvAfter == Content(frames', IF call'.recv = "a" THEN a' ELSE b')
OtherBefore == Content(frames, IF call'.recv = "a" THEN b ELSE a)
OtherAfter == Content(frames', IF call'.recv = "a" THEN b' ELSE a')
Returned == Content(frames', b')

\* The receiver is still observable after the call: it is a, or nothing was
\* returned (a returned DataPack is bound to b).
RecvObservable == call'.recv = "a" \/ ~call'.returned

Objects(p) == {p.relation, p.left, p.right} \ {0}

\* Standard slice semantics, stated as a filter on the positions 0..n-1.
Clamp(x, lo, hi) == IF x < lo THEN lo ELSE IF x > hi THEN hi ELSE x
FromEnd(x, n) == IF x < 0 THEN x + n ELSE x
Ascending(n) == [i \in 1..n |-> i - 1]
Descending(n) == [i \in 1..n |-> n - i]

SlicePositions(sl, n) ==
    LET step == IF sl.step.none THEN 1 ELSE sl.step.v
    IN IF step > 0
       THEN LET from == IF sl.start.none THEN 0 ELSE Clamp(FromEnd(sl.start.v, n), 0, n)
                to == IF sl.stop.none THEN n ELSE Clamp(FromEnd(sl.stop.v, n), 0, n)
            IN SelectSeq(Ascending(n),
                         LAMBDA i : i >= from /\ i < to /\ (i - from) % step = 0)
       ELSE LET from == IF sl.start.none THEN n - 1
                        ELSE Clamp(FromEnd(sl.start.v, n), 0 - 1, n - 1)
                to == IF sl.stop.none THEN 0 - 1
                      ELSE Clamp(FromEnd(sl.stop.v, n), 0 - 1, n - 1)
            IN SelectSeq(Descending(n),
                         LAMBDA i : i <= from /\ i > to /\ (from - i) % (0 - step) = 0)

\* The positions an index denotes on a table of n rows.
Positions(index, n) ==
    IF index.kind = "int" THEN <<index.i>>
    ELSE IF index.kind = "slice" THEN SlicePositions(index, n)
    ELSE index.list

\* A valid index: every position it denotes is one of 0..n-1.
ValidIndex(index, n) ==
    \A k \in 1..Len(Positions(index, n)) : Positions(index, n)[k] \in 0..(n - 1)

Range(seq) == {seq[i] : i \in 1..Len(seq)}
FirstAt(seq, x) == CHOOSE i \in 1..Len(seq) : seq[i] = x /\ \A j \in 1..(i - 1) : seq[j] # x

\* u lists the distinct values of vals, each once, in order of first occurrence.
IsFirstOccurrenceOrder(u, vals) ==
    /\ Range(u) = Range(vals)
    /\ \A i, j \in 1..Len(u) : i < j => FirstAt(vals, u[i]) < FirstAt(vals, u[j])

ColumnValues(df, column) ==
    [i \in 1..Len(df.rows) |-> df.rows[i][FirstAt(df.columns, column)]]

\* sub holds exactly the rows of the entity table full whose keys are `keys`,
\* in that order, with all of full's columns.
IsRestriction(sub, full, keys) ==
    /\ sub.err = ""
    /\ sub.name = full.name
    /\ sub.columns = full.columns
    /\ sub.index = keys
    /\ Len(sub.rows) = Len(keys)
    /\ \A k \in 1..Len(keys) :
          \E i \in 1..Len(full.index) : full.index[i] = keys[k] /\ full.rows[i] = sub.rows[k]

(* ------------------------------------------------------------------ *)
(* C1: select(index) with a valid index returns the relation rows at   *)
(* the positions the index denotes, in that order, renumbered          *)
(* 0..len(idx)-1 (so its length is len(idx)); its left table holds     *)
(* exactly the distinct left identifiers of those rows in order of     *)
(* first occurrence, and its right table the distinct right ones.      *)
(* ------------------------------------------------------------------ *)
SelectPost(src, res, idx) ==
    /\ res.relation.err = ""
    /\ res.relation.columns = src.relation.columns
    /\ res.relation.index = RangeIndex(Len(idx))
    /\ Len(res.relation.rows) = Len(idx)
    /\ \A k \in 1..Len(idx) : res.relation.rows[k] = src.relation.rows[idx[k] + 1]
    /\ IsFirstOccurrenceOrder(res.left.index, ColumnValues(res.relation, "id_left"))
    /\ IsRestriction(res.left, src.left, res.left.index)
    /\ IsFirstOccurrenceOrder(res.right.index, ColumnValues(res.relation, "id_right"))
    /\ IsRestriction(res.right, src.right, res.right.index)

C1_SelectContract ==
    [][(/\ Called("select")
        /\ RecvBefore.relation.index = RangeIndex(Len(RecvBefore.relation.rows))
        /\ ValidIndex(call'.args.index, Len(RecvBefore.relation.rows)))
       => /\ call'.raised = ""
          /\ call'.returned
          /\ SelectPost(RecvBefore, Returned,
                        Positions(call'.args.index, Len(RecvBefore.relation.rows)))]_vars

\* A selection by a list that names one position twice: two equal relation
\* rows, and one left and one right entity.
C1_Witness ==
    /\ call.op = "select"
    /\ call.raised = ""
    /\ call.args.index.kind = "list"
    /\ call.args.index.list = <<1, 1>>
    /\ Len(frames[b.relation].rows) = 2
    /\ frames[b.relation].rows[1] = frames[b.relation].rows[2]
    /\ Len(frames[b.left].index) = 1
    /\ Len(frames[b.right].index) = 1

(* ------------------------------------------------------------------ *)
(* C2: referential integrity.  In every DataPack reached by select,    *)
(* copy, shuffle, drop_label, append_text_length and apply_on_text     *)
(* (in place or not), receiver or returned, every left identifier of   *)
(* relation is a key of left and every right identifier a key of right.*)
(* ------------------------------------------------------------------ *)
ReferentialIntegrity(c) ==
    /\ c.relation.err = "" /\ c.left.err = "" /\ c.right.err = ""
    /\ Range(ColumnValues(c.relation, "id_left")) \subseteq Range(c.left.index)
    /\ Range(ColumnValues(c.relation, "id_right")) \subseteq Range(c.right.index)

C2_ReferentialIntegrity ==
    \A slot \in Slots :
        Pack(slot) # NoPack => ReferentialIntegrity(Content(frames, Pack(slot)))

\* A subset taken by the second call of a run: its left table has lost an
\* entity its relation does not refer to.
C2_Witness ==
    /\ steps = 2
    /\ call.op = "select"
    /\ call.returned
    /\ Len(frames[b.relation].rows) > 0
    /\ Len(frames[b.left].index) < Len(frames[a.left].index)
    /\ ReferentialIntegrity(Content(frames, b))

(* ------------------------------------------------------------------ *)
(* C3: the optional-inplace contract of shuffle, drop_label,           *)
(* append_text_length and apply_on_text.  With inplace=False the       *)
(* method is applied to a fresh copy, which is returned, and the       *)
(* receiver's three tables stay as they were; with inplace=True the    *)
(* receiver itself is modified and nothing is returned.                *)
(* ------------------------------------------------------------------ *)
Mutators == {"shuffle", "drop_label", "append_text_length", "apply_on_text"}

\* What the method proper (the function the wrapper decorates) does to the
\* DataPack it is given, for the call just made.
MethodProper(fr, self, c) ==
    IF c.op = "shuffle" THEN shuffle_body(fr, self, c.args.perm)
    ELSE IF c.op = "drop_label" THEN drop_label_body(fr, self)
    ELSE IF c.op = "append_text_length" THEN append_text_length_body(fr, self)
    ELSE apply_on_text_body(fr, self, c.args.func, c.args.mode, c.args.rename, TRUE)

AppliedToReceiver ==
    LET o == MethodProper(frames, Pack(call'.recv), call')
    IN Content(o.frames, o.self)

C3_OptionalInplace ==
    [][(\E op \in Mutators : Called(op))
       => IF call'.inplace
          THEN /\ ~call'.returned
               /\ call'.raised = "" => RecvAfter = AppliedToReceiver
               /\ OtherAfter = OtherBefore
          ELSE /\ call'.returned <=> call'.raised = ""
               /\ RecvObservable => RecvAfter = RecvBefore
               /\ call'.returned =>
                     /\ Returned = AppliedToReceiver
                     /\ call'.recv = "a" => Objects(b') \cap Objects(a') = {}]_vars

\* apply_on_text(len, mode='left', rename='length_left') with inplace=False:
\* the returned DataPack has the new column, the receiver does not.
C3_Witness ==
    /\ call.op = "apply_on_text"
    /\ ~call.inplace
    /\ call.recv = "a"
    /\ call.returned
    /\ frames[b.left].columns = <<"text_left", "length_left">>
    /\ frames[a.left].columns = <<"text_left">>

(* ------------------------------------------------------------------ *)
(* C4: copy() and select(index) return DataPacks sharing no storage    *)
(* with their source.  A copy is equal in content to the original, and *)
(* a call made in place on either of the two leaves the three tables   *)
(* of the other unchanged.                                             *)
(* ------------------------------------------------------------------ *)
C4_Independent ==
    [][/\ Called("copy") =>
             /\ call'.returned
             /\ Returned = RecvBefore
             /\ RecvObservable => RecvAfter = RecvBefore
       /\ (Called("copy") \/ Called("select")) /\ call'.returned =>
             Objects(a') \cap Objects(b') = {}
       /\ (\E op \in Mutators : Called(op)) /\ call'.inplace =>
             OtherAfter = OtherBefore]_vars

\* A column appended in place to a copy of a: a is as it was constructed.
C4_Witness ==
    /\ steps = 2
    /\ call.op = "append_text_length"
    /\ call.inplace
    /\ call.recv = "b"
    /\ call.raised = ""
    /\ frames[b.left].columns = <<"text_left", "length_left">>
    /\ frames[b.relation] = frames[a.relation]
    /\ frames[a.left] = InitLeft
    /\ frames[a.right] = InitRight

(* ------------------------------------------------------------------ *)
(* The joined table, stated row by row                                 *)
(* ------------------------------------------------------------------ *)
NonIdColumns(relation) ==
    SelectSeq([j \in 1..Len(relation.columns) |-> j],
              LAMBDA j : relation.columns[j] \notin {"id_left", "id_right"})

\* out has one row per position of idx, in that order, numbered from zero:
\* the left entity of the relation row (key, then columns), the right entity
\* (key, then columns), then the relation row's columns other than the two
\* identifiers.
IsJoin(out, c, idx) ==
    LET rest == NonIdColumns(c.relation)
    IN /\ out.err = ""
       /\ out.columns = <<c.left.name>> \o c.left.columns \o <<c.right.name>>
                          \o c.right.columns
                          \o [j \in 1..Len(rest) |-> c.relation.columns[rest[j]]]
       /\ out.index = RangeIndex(Len(idx))
       /\ Len(out.rows) = Len(idx)
       /\ \A k \in 1..Len(idx) :
             LET row == c.relation.rows[idx[k] + 1]
                 idl == row[FirstAt(c.relation.columns, "id_left")]
                 idr == row[FirstAt(c.relation.columns, "id_right")]
             IN \E i \in 1..Len(c.left.index), j \in 1..Len(c.right.index) :
                   /\ c.left.index[i] = idl
                   /\ c.right.index[j] = idr
                   /\ out.rows[k] = <<idl>> \o c.left.rows[i] \o <<idr>> \o c.right.rows[j]
                                      \o [m \in 1..Len(rest) |-> row[rest[m]]]

(* ------------------------------------------------------------------ *)
(* C5: the view has no state of its own.  After any calls made in      *)
(* place on the DataPack it was obtained from (shuffle, drop_label,    *)
(* append_text_length, apply_on_text with any mode and rename), the    *)
(* view's full table is the join of the DataPack's current content,    *)
(* and has as many rows as the DataPack.                               *)
(* ------------------------------------------------------------------ *)
C5_ViewFollowsPack ==
    call.op = "frame()" =>
        /\ frameOut.err = ""
        /\ Len(frameOut.rows) = __len__(frames, a)
        /\ IsJoin(frameOut, Content(frames, a), Ascending(__len__(frames, a)))

(* ------------------------------------------------------------------ *)
(* C6: view[index] has exactly one row per requested position, in the  *)
(* requested order and numbered from zero; row k carries the columns   *)
(* of the left entity of the k-th requested relation row, then those   *)
(* of its right entity, then the relation columns other than the two   *)
(* identifiers.                                                        *)
(* ------------------------------------------------------------------ *)
C6_SliceIsJoin ==
    (call.op = "frame[]" /\ ValidIndex(call.args.index, __len__(frames, a))) =>
        IsJoin(frameOut, Content(frames, a),
               Positions(call.args.index, __len__(frames, a)))

(* ------------------------------------------------------------------ *)
(* C7: selecting and joining commute.  For a DataPack with unique      *)
(* keys and referential integrity and a valid index, the full joined   *)
(* table of select(index) is, row for row and in the same order, the   *)
(* view of the original sliced by index.  (Where the join raises, it   *)
(* raises the same exception on both sides.)                           *)
(* ------------------------------------------------------------------ *)
KeysUnique(c) ==
    /\ \A i, j \in 1..Len(c.left.index) : c.left.index[i] = c.left.index[j] => i = j
    /\ \A i, j \in 1..Len(c.right.index) : c.right.index[i] = c.right.index[j] => i = j

C7_SelectJoinCommute ==
    [][(/\ Called("select")
        /\ ReferentialIntegrity(RecvBefore)
        /\ KeysUnique(RecvBefore)
        /\ ValidIndex(call'.args.index, Len(RecvBefore.relation.rows)))
       => /\ call'.returned
          /\ DataPackFrameView__call__(frames', b')
               = DataPackFrameView__getitem__(frames, Pack(call'.recv), call'.args.index)]_vars

\* The two rows of a taken in reverse order: the joined table of the subset
\* has the two rows, the second of a first.
C7_Witness ==
    /\ call.op = "select"
    /\ call.recv = "a"
    /\ call.args.index = ListIndex(<<1, 0>>)
    /\ call.returned
    /\ DataPackFrameView__call__(frames, b).err = ""
    /\ DataPackFrameView__call__(frames, b).rows
         = << DataPackFrameView__call__(frames, a).rows[2],
              DataPackFrameView__call__(frames, a).rows[1] >>
    /\ DataPackFrameView__call__(frames, a).rows[1]
         # DataPackFrameView__call__(frames, a).rows[2]

(* ------------------------------------------------------------------ *)
(* C8: shuffle permutes the relation rows and changes nothing else.    *)
(* The resulting relation has the same length and the same multiset of *)
(* rows (each row keeping its identifiers and label together), it is   *)
(* numbered 0..length-1, and left and right are untouched; with        *)
(* inplace=False the receiver's row order is unchanged.                *)
(* ------------------------------------------------------------------ *)
Count(seq, x) == Cardinality({i \in 1..Len(seq) : seq[i] = x})
SameBag(s, t) == \A x \in Range(s) \cup Range(t) : Count(s, x) = Count(t, x)

\* The DataPack the call worked on, after the call.
Target == IF call'.inplace THEN RecvAfter ELSE Returned

WithoutColumn(df, column) ==
    LET keep == SelectSeq([j \in 1..Len(df.columns) |-> j],
                          LAMBDA j : df.columns[j] # column)
    IN [columns |-> [j \in 1..Len(keep) |-> df.columns[keep[j]]],
        rows |-> [i \in 1..Len(df.rows) |-> [j \in 1..Len(keep) |-> df.rows[i][keep[j]]]]]

C9_DropLabel ==
    [][Called("drop_label")
       => IF has_label(frames, Pack(call'.recv))
          THEN /\ call'.raised = ""
               /\ call'.returned <=> ~call'.inplace
               /\ "label" \notin Range(Target.relation.columns)
               /\ Target.relation.columns = WithoutColumn(RecvBefore.relation, "label").columns
               /\ Target.relation.rows = WithoutColumn(RecvBefore.relation, "label").rows
               /\ Target.relation.index = RecvBefore.relation.index
               /\ Target.left = RecvBefore.left
               /\ Target.right = RecvBefore.right
               /\ (~call'.inplace /\ RecvObservable) => RecvAfter = RecvBefore
          ELSE /\ call'.raised = "KeyError"
               /\ ~call'.returned
               /\ RecvAfter = RecvBefore]_vars

\* drop_label(inplace=True) a second time on a: it raised, and a is without
\* its label column, as the first call left it.
C9_Witness ==
    /\ steps = 2
    /\ call.op = "drop_label"
    /\ call.recv = "a"
    /\ call.inplace
    /\ call.raised = "KeyError"
    /\ frames[a.relation].columns = <<"id_left", "id_right">>
    /\ ~has_label(frames, a)

(* ------------------------------------------------------------------ *)
(* C10: failure atomicity.  apply_on_text with a mode other than left, *)
(* right or both raises the configuration error (ValueError) with no   *)
(* column of left or right changed; every failing call of a mutating   *)
(* method leaves the receiver's relation, left and right as they were, *)
(* but for apply_on_text in both mode (append_text_length is that      *)
(* call), where the left column may be written when the right          *)
(* transformation fails.                                               *)
(* ------------------------------------------------------------------ *)
ThroughBothMode ==
    \/ call'.op = "append_text_length"
    \/ call'.op = "apply_on_text" /\ call'.args.mode = "both"

LeftName ==
    IF call'.op = "append_text_length" THEN "length_left"
    ELSE IF call'.args.rename.kind = "pair" THEN call'.args.rename.l
    ELSE "text_left"

\* after is before with at most the column `name` written: all the other
\* columns, the keys and the rows' other cells are the same.
OnlyColumnWritten(before, after, name) ==
    /\ after.err = ""
    /\ after.name = before.name
    /\ after.index = before.index
    /\ WithoutColumn(after, name).columns = WithoutColumn(before, name).columns
    /\ WithoutColumn(after, name).rows = WithoutColumn(before, name).rows

====
